---- MODULE Spec2Model ----
(***************************************************************************)
(* A model of the SNMP tool server: configuration validation               *)
(* (config.Auth.UnmarshalYAML), session construction (NewGoSNMP), the      *)
(* request handlers (SnmpGet, SnmpWalk) and the value formatter            *)
(* (formatValue).                                                          *)
(*                                                                         *)
(* Go strings that the program takes apart (the target of a request) are   *)
(* sequences of one-character strings.  Text the program only writes is a  *)
(* sequence of the pieces written, in order; Join gives the string.        *)
(***************************************************************************)
EXTENDS Integers, Sequences, FiniteSets, TLC

VARIABLES
    step,       \* "input" / "output": position of the pure-function specifications
    doc,        \* the YAML mapping of one auth profile, as the decoder sees it
    c,          \* the config.Auth that UnmarshalYAML fills in
    yamlErr,    \* the error UnmarshalYAML returns ("" is nil)
    target,     \* NewGoSNMP's target argument
    authName,   \* NewGoSNMP's auth argument
    built,      \* what NewGoSNMP returned: [g |-> session or NilSession, err |-> ...]
    pdu,        \* the PDU handed to formatValue
    writer,     \* the io.Writer formatValue writes to: the pieces written so far
    C,          \* the global *config.Config (NilConfig before main assigns it)
    proc,       \* the process: "start", "serving" or "exited"
    fatal,      \* the error main logged before it exited
    inv         \* the tool invocations in flight, one record per invocation

vars == <<step, doc, c, yamlErr, target, authName, built, pdu, writer, C, proc, fatal, inv>>

----------------------------------------------------------------------------
(* Strings *)

RECURSIVE Join(_)
\* The Go string made of the pieces ps, in order.
Join(ps) == IF ps = <<>> THEN "" ELSE Head(ps) \o Join(Tail(ps))

\* s[from..to] with Go's slice bounds s[from-1:to] (1-based, inclusive here).
Slice(s, from, to) == SubSeq(s, from, to)

\* The positions of s holding the character ch.
Positions(s, ch) == {i \in 1..Len(s) : s[i] = ch}

Min(S) == CHOOSE x \in S : \A y \in S : x <= y
Max(S) == CHOOSE x \in S : \A y \in S : x >= y

\* bytealg.IndexByteString / LastIndexByteString, 1-based, 0 when absent.
IndexByte(s, ch) == IF Positions(s, ch) = {} THEN 0 ELSE Min(Positions(s, ch))
LastIndexByte(s, ch) == IF Positions(s, ch) = {} THEN 0 ELSE Max(Positions(s, ch))

DigitChars == <<"0", "1", "2", "3", "4", "5", "6", "7", "8", "9">>
IsDigit(ch) == \E d \in 1..10 : DigitChars[d] = ch
DigitValue(ch) == (CHOOSE d \in 1..10 : DigitChars[d] = ch) - 1

RECURSIVE ItoaNat(_)
\* The decimal digits of a natural number, as a string.
ItoaNat(n) == IF n < 10 THEN DigitChars[n + 1]
              ELSE ItoaNat(n \div 10) \o DigitChars[(n % 10) + 1]

\* fmt's %d of an integer.
Itoa(n) == IF n < 0 THEN "-" \o ItoaNat(-n) ELSE ItoaNat(n)

----------------------------------------------------------------------------
(* config: the auth profile and its validation *)

DefaultAuth ==
    [Community |-> "public", SecurityLevel |-> "noAuthNoPriv", Username |-> "",
     Password |-> "", AuthProtocol |-> "MD5", PrivProtocol |-> "DES",
     PrivPassword |-> "", ContextName |-> "", Version |-> 2]

\* The yaml tag of each field of config.Auth.
AuthTags ==
    [Community |-> "community", SecurityLevel |-> "security_level",
     Username |-> "username", Password |-> "password",
     AuthProtocol |-> "auth_protocol", PrivProtocol |-> "priv_protocol",
     PrivPassword |-> "priv_password", ContextName |-> "context_name",
     Version |-> "version"]

AuthFields == DOMAIN DefaultAuth

\* The errors UnmarshalYAML returns; NoError is nil.
NoError == ""
ErrDecode == "yaml: unmarshal errors"
ErrVersion == "SNMP version must be 1, 2 or 3"
ErrPrivPassword == "priv password is missing, required for SNMPv3 with priv"
ErrPrivProtocol == "priv protocol must be DES or AES"
ErrPassword == "auth password is missing, required for SNMPv3 with auth"
ErrAuthProtocol == "auth protocol must be SHA or MD5"
ErrUsername == "auth username is missing, required for SNMPv3"
ErrSecurityLevel == "security level must be one of authPriv, authNoPriv or noAuthNoPriv"

\* A YAML document of one profile: the keys it holds with their values, and
\* whether every value has the type of its field (the decoder fails otherwise).
\* unmarshal((*plain)(c)) overwrites exactly the fields whose keys are present.
Decode(into, d) ==
    [f \in AuthFields |-> IF AuthTags[f] \in DOMAIN d.keys THEN d.keys[AuthTags[f]]
                                                           ELSE into[f]]

\* The checks of the case "noAuthNoPriv" (reached directly or by fallthrough).
CheckNoAuthNoPriv(a) ==
    IF a.Username = "" THEN ErrUsername ELSE NoError

\* The checks of the case "authNoPriv", falling through to "noAuthNoPriv".
CheckAuthNoPriv(a) ==
    IF a.Password = "" THEN ErrPassword
    ELSE IF /\ a.AuthProtocol # "MD5" /\ a.AuthProtocol # "SHA"
            /\ a.AuthProtocol # "SHA224" /\ a.AuthProtocol # "SHA256"
            /\ a.AuthProtocol # "SHA384" /\ a.AuthProtocol # "SHA512"
         THEN ErrAuthProtocol
    ELSE CheckNoAuthNoPriv(a)

\* A variant of CheckAuthPriv that ends after its own two checks instead of
\* falling through.
CheckAuthPrivOnly(a) ==
    IF a.PrivPassword = "" THEN ErrPrivPassword
    ELSE IF a.PrivProtocol \notin {"DES", "AES", "AES192", "AES192C", "AES256", "AES256C"}
         THEN ErrPrivProtocol
    ELSE NoError

\* The checks of the case "authPriv", falling through to "authNoPriv".
CheckAuthPriv(a) ==
    IF a.PrivPassword = "" THEN ErrPrivPassword
    ELSE IF /\ a.PrivProtocol # "DES" /\ a.PrivProtocol # "AES"
            /\ a.PrivProtocol # "AES192" /\ a.PrivProtocol # "AES192C"
            /\ a.PrivProtocol # "AES256" /\ a.PrivProtocol # "AES256C"
         THEN ErrPrivProtocol
    ELSE CheckAuthNoPriv(a)

\* A variant of the version gate whose lower limit is off by one.
VersionOutOfRangeFromZero(a) == a.Version < 0 \/ a.Version > 3

\* The version gate of UnmarshalYAML.
VersionOutOfRange(a) == a.Version < 1 \/ a.Version > 3

\* The checks UnmarshalYAML makes once the document is decoded.
Validate(a) ==
    IF VersionOutOfRange(a) THEN ErrVersion
    ELSE IF a.Version = 3
         THEN CASE a.SecurityLevel = "authPriv" -> CheckAuthPriv(a)
                [] a.SecurityLevel = "authNoPriv" -> CheckAuthNoPriv(a)
                [] a.SecurityLevel = "noAuthNoPriv" -> CheckNoAuthNoPriv(a)
                [] OTHER -> ErrSecurityLevel
    ELSE NoError

\* (c *Auth) UnmarshalYAML: the profile left in *c and the error returned.
\* A decoding error returns before any check; the caller drops the profile.
UnmarshalYAML(d) ==
    IF ~d.wellTyped THEN [c |-> DefaultAuth, err |-> ErrDecode]
    ELSE [c |-> Decode(DefaultAuth, d), err |-> Validate(Decode(DefaultAuth, d))]

----------------------------------------------------------------------------
(* config: the loaded configuration *)

\* defaultRetries, and the fields of DefaultOptions (Timeout in seconds).
defaultRetries == 3
DefaultMaxRepetitions == 25
DefaultTimeout == 5

DefaultOptions ==
    [MaxRepetitions |-> DefaultMaxRepetitions, Retries |-> defaultRetries,
     Timeout |-> DefaultTimeout, UseUnconnectedUDPSocket |-> FALSE,
     AllowNonIncreasingOIDs |-> FALSE]

----------------------------------------------------------------------------
(* gosnmp: the session descriptor *)

\* gosnmp.MaxOids, the engine's ceiling on the OIDs of one request.
MaxOids == 60

\* The zero value of gosnmp.UsmSecurityParameters (the fields the program sets).
ZeroUsm ==
    [UserName |-> "", AuthenticationPassphrase |-> "", AuthenticationProtocol |-> "",
     PrivacyPassphrase |-> "", PrivacyProtocol |-> ""]

\* The zero value of gosnmp.GoSNMP (the fields the program sets).  The zero
\* Version is gosnmp.Version1 and the zero MsgFlags is gosnmp.NoAuthNoPriv;
\* a nil map or interface is <<>> and a non-nil one is <<value>>.
ZeroGoSNMP ==
    [ExponentialTimeout |-> FALSE, MaxOids |-> 0, MaxRepetitions |-> 0, Port |-> 0,
     Retries |-> 0, Target |-> <<>>, Timeout |-> 0, Transport |-> <<>>,
     AppOpts |-> <<>>, Version |-> "Version1", Community |-> "", ContextName |-> "",
     SecurityModel |-> "", MsgFlags |-> "NoAuthNoPriv", SecurityParameters |-> <<>>]

\* The switch on c.Version in ConfigureSNMP.
SnmpVersion(a, old) ==
    CASE a.Version = 1 -> "Version1"
      [] a.Version = 2 -> "Version2c"
      [] a.Version = 3 -> "Version3"
      [] OTHER -> old

\* The switch on c.SecurityLevel in ConfigureSNMP.
SnmpMsgFlags(a, old) ==
    CASE a.SecurityLevel = "noAuthNoPriv" -> "NoAuthNoPriv"
      [] a.SecurityLevel = "authNoPriv" -> "AuthNoPriv"
      [] a.SecurityLevel = "authPriv" -> "AuthPriv"
      [] OTHER -> old

UsesAuth(a) == a.SecurityLevel \in {"authNoPriv", "authPriv"}
UsesPriv(a) == a.SecurityLevel = "authPriv"

\* The switches on c.AuthProtocol and c.PrivProtocol: a name outside the
\* enumeration leaves the zero value.
UsmAuthProtocol(a) ==
    IF a.AuthProtocol \in {"SHA", "SHA224", "SHA256", "SHA384", "SHA512", "MD5"}
    THEN a.AuthProtocol ELSE ""

UsmPrivProtocol(a) ==
    IF a.PrivProtocol \in {"DES", "AES", "AES192", "AES192C", "AES256", "AES256C"}
    THEN a.PrivProtocol ELSE ""

\* (c Auth) ConfigureSNMP(g, snmpContext): g with the version and auth settings.
ConfigureSNMP(a, g, snmpContext) ==
    [g EXCEPT
       !.Version = SnmpVersion(a, g.Version),
       !.Community = a.Community,
       !.ContextName = IF snmpContext = "" THEN a.ContextName ELSE snmpContext,
       !.SecurityModel = "UserSecurityModel",
       !.MsgFlags = SnmpMsgFlags(a, g.MsgFlags),
       !.SecurityParameters =
           << [ZeroUsm EXCEPT
                 !.UserName = a.Username,
                 !.AuthenticationPassphrase = IF UsesAuth(a) THEN a.Password ELSE @,
                 !.AuthenticationProtocol = IF UsesAuth(a) THEN UsmAuthProtocol(a) ELSE @,
                 !.PrivacyPassphrase = IF UsesPriv(a) THEN a.PrivPassword ELSE @,
                 !.PrivacyProtocol = IF UsesPriv(a) THEN UsmPrivProtocol(a) ELSE @] >>]

----------------------------------------------------------------------------
(* main: the address of a target and the session builder *)

\* port := uint16(161)
DefaultPort == 161

\* The width of the port field of gosnmp.GoSNMP (uint16).
PortBits == 16

\* uint16(p): the conversion keeps the low 16 bits.
Uint16(p) == p % (2 ^ PortBits)

\* The first position at which "://" starts in s, 0 when there is none.
IndexSep(s) ==
    LET at == {i \in 1..(Len(s) - 2) : s[i] = ":" /\ s[i + 1] = "/" /\ s[i + 2] = "/"}
    IN IF at = {} THEN 0 ELSE Min(at)

\* strings.SplitN(target, "://", 2)
SplitN(s) ==
    IF IndexSep(s) = 0 THEN <<s>>
    ELSE <<Slice(s, 1, IndexSep(s) - 1), Slice(s, IndexSep(s) + 3, Len(s))>>

\* net.SplitHostPort(hostport): the port starts after the last colon; a host
\* holding a colon must be bracketed; the error is "" when there is none.
SplitHostPort(hp) ==
    LET i == LastIndexByte(hp, ":")
        end == IndexByte(hp, "]")
        fail(why) == [host |-> <<>>, port |-> <<>>, err |-> why]
        ok(host, j, k) ==
            IF IndexByte(Slice(hp, j, Len(hp)), "[") > 0
            THEN fail("unexpected '[' in address")
            ELSE IF IndexByte(Slice(hp, k, Len(hp)), "]") > 0
            THEN fail("unexpected ']' in address")
            ELSE [host |-> host, port |-> Slice(hp, i + 1, Len(hp)), err |-> ""]
    IN IF i = 0 THEN fail("missing port in address")
       ELSE IF hp[1] = "["
       THEN IF end = 0 THEN fail("missing ']' in address")
            ELSE IF end = Len(hp) THEN fail("missing port in address")
            ELSE IF end + 1 = i THEN ok(Slice(hp, 2, end - 1), 2, end + 1)
            ELSE IF hp[end + 1] = ":" THEN fail("too many colons in address")
            ELSE fail("missing port in address")
       ELSE IF IndexByte(Slice(hp, 1, i - 1), ":") > 0
            THEN fail("too many colons in address")
            ELSE ok(Slice(hp, 1, i - 1), 1, 1)

RECURSIVE DigitsValue(_)
\* n = n*10 + int(ch) over the digits ds.
DigitsValue(ds) ==
    IF ds = <<>> THEN 0
    ELSE DigitsValue(Slice(ds, 1, Len(ds) - 1)) * 10 + DigitValue(ds[Len(ds)])

\* strconv.Atoi(s) for the strings short of an int's range: an optional sign
\* and then one or more decimal digits; anything else is a syntax error.
Atoi(s) ==
    LET signed == s # <<>> /\ s[1] \in {"-", "+"}
        ds == IF signed THEN Tail(s) ELSE s
    IN IF ds = <<>> \/ \E k \in 1..Len(ds) : ~IsDigit(ds[k])
       THEN [n |-> 0, err |-> "invalid syntax"]
       ELSE [n |-> IF signed /\ s[1] = "-" THEN -DigitsValue(ds) ELSE DigitsValue(ds),
             err |-> ""]

\* A variant of TargetTransport that does not take the scheme of the target.
TargetTransportDefault(t) == <<"u", "d", "p">>

\* The transport and the rest of the target, after the scheme is split off.
TargetTransport(t) == IF Len(SplitN(t)) = 2 THEN SplitN(t)[1] ELSE <<"u", "d", "p">>
TargetRest(t) == IF Len(SplitN(t)) = 2 THEN SplitN(t)[2] ELSE t

ErrPort == "error converting port number to int for target"

\* A variant of ApplyAuth that configures the default profile for a name the
\* map does not hold.
ApplyAuthOrDefault(conf, auth, g) ==
    IF auth \in DOMAIN conf.Auths THEN ConfigureSNMP(conf.Auths[auth], g, "")
    ELSE ConfigureSNMP(DefaultAuth, g, "")

\* The lookup C.Auths[auth] and the guarded call of ConfigureSNMP.
ApplyAuth(conf, auth, g) ==
    IF auth \in DOMAIN conf.Auths THEN ConfigureSNMP(conf.Auths[auth], g, "") ELSE g

\* NewGoSNMP(auth, target) with the configuration conf in C: the session
\* (<<>> for nil) and the error ("" for nil).
NewGoSNMP(conf, auth, t) ==
    LET hp == SplitHostPort(TargetRest(t))
        host == IF hp.err = "" THEN hp.host ELSE TargetRest(t)
        p == Atoi(hp.port)
        port == IF hp.err = "" THEN Uint16(p.n) ELSE DefaultPort
        g == [ZeroGoSNMP EXCEPT
                !.ExponentialTimeout = TRUE,
                !.MaxOids = MaxOids,
                !.Port = port,
                !.Retries = conf.Options.Retries,
                !.Target = host,
                !.Timeout = conf.Options.Timeout,
                !.Transport = TargetTransport(t),
                !.AppOpts = IF conf.Options.AllowNonIncreasingOIDs
                            THEN << [c |-> TRUE] >> ELSE <<>>]
    IN IF hp.err = "" /\ p.err # ""
       THEN [g |-> <<>>, err |-> ErrPort]
       ELSE [g |-> << ApplyAuth(conf, auth, g) >>, err |-> ""]

----------------------------------------------------------------------------
(* tools: the value formatter *)

\* The ASCII characters 32..126, in order (the grave accent, 96, which no
\* string of this language can hold, is written \x60).
AsciiPrintable ==
    <<
       " ", "!", "\"", "#", "$", "%", "&", "'", "(", ")", "*", "+",
       ",", "-", ".", "/", "0", "1", "2", "3", "4", "5", "6", "7",
       "8", "9", ":", ";", "<", "=", ">", "?", "@", "A", "B", "C",
       "D", "E", "F", "G", "H", "I", "J", "K", "L", "M", "N", "O",
       "P", "Q", "R", "S", "T", "U", "V", "W", "X", "Y", "Z", "[",
       "\\", "]", "^", "_", "\\x60", "a", "b", "c", "d", "e", "f", "g",
       "h", "i", "j", "k", "l", "m", "n", "o", "p", "q", "r", "s",
       "t", "u", "v", "w", "x", "y", "z", "{", "|", "}", "~" >>

HexDigits == <<"0", "1", "2", "3", "4", "5", "6", "7", "8", "9",
               "A", "B", "C", "D", "E", "F">>

\* fmt's %X of one byte: two uppercase hex digits.
HexByte(b) == HexDigits[(b \div 16) + 1] \o HexDigits[(b % 16) + 1]

RECURSIVE HexBytes(_)
\* fmt's "% X" of a byte slice: the bytes in hex, a space between each two.
HexBytes(bs) ==
    IF bs = <<>> THEN ""
    ELSE IF Len(bs) = 1 THEN HexByte(bs[1])
    ELSE HexByte(bs[1]) \o " " \o HexBytes(Tail(bs))

\* One byte of string(bytes) as it is written: the character itself when it
\* is printable ASCII, and an escape \xHH standing for the raw byte otherwise.
ByteChar(b) == IF b >= 32 /\ b <= 126 THEN AsciiPrintable[b - 31] ELSE "\\x" \o HexByte(b)

RECURSIVE BytesString(_)
\* fmt's %s of string(bytes).
BytesString(bs) == IF bs = <<>> THEN "" ELSE ByteChar(bs[1]) \o BytesString(Tail(bs))

\* utf8.RuneError, which decoding yields for a byte that starts no valid encoding.
RuneError == 65533

InRange(b, lo, hi) == b >= lo /\ b <= hi
IsCont(b) == InRange(b, 128, 191)

\* The length utf8's table gives the encoding that starts with byte b (0: invalid).
RuneSize(b) ==
    IF b < 128 THEN 1
    ELSE IF InRange(b, 194, 223) THEN 2
    ELSE IF InRange(b, 224, 239) THEN 3
    ELSE IF InRange(b, 240, 244) THEN 4
    ELSE 0

\* Whether b2 may follow the first byte b1 (utf8's accept ranges).
AcceptSecond(b1, b2) ==
    CASE b1 = 224 -> InRange(b2, 160, 191)
      [] b1 = 237 -> InRange(b2, 128, 159)
      [] b1 = 240 -> InRange(b2, 144, 191)
      [] b1 = 244 -> InRange(b2, 128, 143)
      [] OTHER -> IsCont(b2)

\* utf8.DecodeRuneInString at the head of bs (not empty): the rune and its width.
DecodeRune(bs) ==
    LET n == RuneSize(bs[1])
        bad == [rune |-> RuneError, size |-> 1]
    IN IF n = 1 THEN [rune |-> bs[1], size |-> 1]
       ELSE IF n = 0 \/ Len(bs) < n THEN bad
       ELSE IF ~AcceptSecond(bs[1], bs[2]) THEN bad
       ELSE IF n = 2 THEN [rune |-> (bs[1] % 32) * 64 + (bs[2] % 64), size |-> 2]
       ELSE IF ~IsCont(bs[3]) THEN bad
       ELSE IF n = 3
            THEN [rune |-> (bs[1] % 16) * 4096 + (bs[2] % 64) * 64 + (bs[3] % 64),
                  size |-> 3]
       ELSE IF ~IsCont(bs[4]) THEN bad
       ELSE [rune |-> (bs[1] % 8) * 262144 + (bs[2] % 64) * 4096
                      + (bs[3] % 64) * 64 + (bs[4] % 64),
             size |-> 4]

RECURSIVE Runes(_)
\* The runes that "for _, r := range string(bytes)" visits, in order.
Runes(bs) ==
    IF bs = <<>> THEN <<>>
    ELSE <<DecodeRune(bs).rune>> \o Runes(Slice(bs, DecodeRune(bs).size + 1, Len(bs)))

\* A variant of the test that has no upper limit.
NotPrintableLow(r) == r < 32

\* The test of the loop body: r < 32 || r > 126.
NotPrintable(r) == r < 32 \/ r > 126

\* isHex after the loop: set by any rune that is not printable, never cleared.
IsHex(bs) == \E k \in 1..Len(Runes(bs)) : NotPrintable(Runes(bs)[k])

\* fmt's %.Nd: decimal, padded with zeros to at least w digits.
RECURSIVE ZeroPad(_, _)
ZeroPad(str, w) == IF Len(str) >= w THEN str ELSE ZeroPad("0" \o str, w)
PadD(n, w) == IF n < 0 THEN "-" \o ZeroPad(ItoaNat(-n), w) ELSE ZeroPad(ItoaNat(n), w)

\* fmt's %d of pdu.Value in the default case: a number in decimal; nil has no
\* decimal form and fmt writes its bad-verb notice.
FmtD(v) == IF v = <<>> THEN "%!d(<nil>)" ELSE Itoa(v[1])

\* An int64 is held as its four 16-bit limbs, the high limb first, so that the
\* arithmetic of the TimeTicks case keeps the width the code has.
LimbBase == 65536

\* gosnmp.ToBigInt(pdu.Value).Int64() of a TimeTicks value: the engine decodes
\* TimeTicks as a uint32, here its two halves <<hi, lo>>.
ToInt64(v) == <<0, 0, v[1], v[2]>>

\* x * k in the width of x: the carry out of the high limb is lost.
RECURSIVE MulLimbs(_, _, _)
MulLimbs(x, k, carry) ==
    IF x = <<>> THEN <<>>
    ELSE LET n == Len(x)
             v == x[n] * k + carry
         IN MulLimbs(SubSeq(x, 1, n - 1), k, v \div LimbBase) \o <<v % LimbBase>>

\* A variant that multiplies in 32 bits: the carry out of the low half is lost.
Mul32(x, k) == SubSeq(x, 1, Len(x) - 2) \o MulLimbs(SubSeq(x, Len(x) - 1, Len(x)), k, 0)

Mul64(x, k) == MulLimbs(x, k, 0)

\* x / d and x % d of a non-negative x, by long division from the high limb.
RECURSIVE DivLimbs(_, _, _)
DivLimbs(x, d, rem) ==
    IF x = <<>> THEN [q |-> <<>>, r |-> rem]
    ELSE LET v == rem * LimbBase + x[1]
             rest == DivLimbs(Tail(x), d, v % d)
         IN [q |-> <<v \div d>> \o rest.q, r |-> rest.r]

Div64(x, d) == DivLimbs(x, d, 0).q
Mod64(x, d) == DivLimbs(x, d, 0).r

\* x divided by the product of ds, one factor at a time.
RECURSIVE DivBy(_, _)
DivBy(x, ds) == IF ds = <<>> THEN x ELSE DivBy(Div64(x, Head(ds)), Tail(ds))

IsZero64(x) == \A k \in 1..Len(x) : x[k] = 0

\* int64(f) of a float that holds a small whole number.
Small(x) == x[Len(x) - 1] * LimbBase + x[Len(x)]

\* fmt's %d of an int64 that is not negative.
RECURSIVE Itoa64(_)
Itoa64(x) ==
    IF IsZero64(Div64(x, 10)) THEN ItoaNat(Mod64(x, 10))
    ELSE Itoa64(Div64(x, 10)) \o ItoaNat(Mod64(x, 10))

\* The factors of time.Millisecond, time.Second, time.Minute and time.Hour in
\* nanoseconds.
Millisecond == <<1000, 1000>>
Second == <<1000, 1000, 1000>>
Minute == <<1000, 1000, 1000, 60>>
Hour == <<1000, 1000, 1000, 60, 60>>

\* int64 ticks * 10, the argument of time.Duration.
TickMillis(ticks) == Mul64(ticks, 10)

\* time.Duration(ms) * time.Millisecond: an int64 of nanoseconds.
Duration(ms) == Mul64(Mul64(ms, 1000), 1000)

\* The five numbers of the Timeticks line.  Hours(), Minutes() and Seconds()
\* are float64s made of the whole units d / unit and the fraction
\* (d % unit) / unit; d is a multiple of 10 ms, so the fraction stays below 1
\* by far more than a float64 of this size can round, and the conversions to
\* int64 give the whole units divided, or the remainder of the whole units.
TickDays(d) == Small(Div64(DivBy(d, Hour), 24))
TickHours(d) == Mod64(DivBy(d, Hour), 24)
TickMinutes(d) == Mod64(DivBy(d, Minute), 60)
TickSeconds(d) == Mod64(DivBy(d, Second), 60)
TickMs(d) == Mod64(DivBy(d, Millisecond), 1000)

\* fmt.Fprintf(writer, ...): the pieces are written after what is there.
Fprintf(w, pieces) == w \o pieces

\* The case gosnmp.OctetString.
FormatOctetString(w, p) ==
    IF IsHex(p.Value)
    THEN Fprintf(w, <<p.Name, " = Hex-STRING: ", HexBytes(p.Value), "\n">>)
    ELSE Fprintf(w, <<p.Name, " = STRING: ", BytesString(p.Value), "\n">>)

\* The case gosnmp.TimeTicks.
FormatTimeTicks(w, p) ==
    LET ticks == ToInt64(p.Value)
        duration == Duration(TickMillis(ticks))
    IN Fprintf(w, <<p.Name, " = Timeticks: (", Itoa64(ticks), ") ",
                    PadD(TickDays(duration), 2), " days, ",
                    PadD(TickHours(duration), 2), ":",
                    PadD(TickMinutes(duration), 2), ":",
                    PadD(TickSeconds(duration), 2), ".",
                    PadD(TickMs(duration), 3), "\n">>)

\* The default case: the type's name (Asn1BER's String) and %d of the value.
FormatDefault(w, p) ==
    Fprintf(w, <<p.Name, " = ", p.Type, ": ", FmtD(p.Value), "\n">>)

\* formatValue(writer, pdu): the switch on pdu.Type.  A number is <<n>> and
\* nil is <<>>; a string value is the string; an octet string is its bytes;
\* the uint32 of TimeTicks is its two 16-bit halves <<hi, lo>>.
formatValue(w, p) ==
    CASE p.Type = "Integer" ->
           Fprintf(w, <<p.Name, " = INTEGER: ", Itoa(p.Value[1]), "\n">>)
      [] p.Type = "IPAddress" ->
           Fprintf(w, <<p.Name, " = IpAddress: ", p.Value, "\n">>)
      [] p.Type = "NoSuchObject" ->
           Fprintf(w, <<p.Name, " = No Such Object available on this agent at this OID", "\n">>)
      [] p.Type = "ObjectIdentifier" ->
           Fprintf(w, <<p.Name, " = OID: ", p.Value, "\n">>)
      [] p.Type = "OctetString" -> FormatOctetString(w, p)
      [] p.Type = "TimeTicks" -> FormatTimeTicks(w, p)
      [] OTHER -> FormatDefault(w, p)

----------------------------------------------------------------------------
(* Inputs of the bounded model *)

\* Versions 0..MaxVersion are tried, and one negative version.
MaxVersion == 4
\* Port segments of up to MaxSegLen characters over SegAlphabet are tried.
MaxSegLen == 3
\* Octet strings of up to MaxOctets bytes over SampleBytes are tried.
MaxOctets == 3

\* A field of a YAML document: absent (<<>>) or present with a value (<<v>>).
Opt(S) == {<<>>} \cup {<<v>> : v \in S}

AuthProtocolNames == {"MD5", "SHA", "SHA224", "SHA256", "SHA384", "SHA512"}
PrivProtocolNames == {"DES", "AES", "AES192", "AES192C", "AES256", "AES256C"}

\* The documents tried: every combination of these fields, absent or present.
DocFields ==
    [Version : Opt((0..MaxVersion) \cup {-1}),
     SecurityLevel : Opt({"noAuthNoPriv", "authNoPriv", "authPriv", "AuthPriv", ""}),
     Username : Opt({"", "admin"}),
     Password : Opt({"authpass"}),
     PrivPassword : Opt({"privpass"}),
     AuthProtocol : Opt(AuthProtocolNames \cup {"sha", ""}),
     PrivProtocol : Opt(PrivProtocolNames \cup {"3DES"})]

\* The document that holds the present fields of o under their yaml tags.
DocOf(o, typed) ==
    [keys |-> [t \in {AuthTags[f] : f \in {x \in DOMAIN o : o[x] # <<>>}} |->
                 o[CHOOSE f \in DOMAIN o : AuthTags[f] = t][1]],
     wellTyped |-> typed]

YamlDocs ==
    {DocOf(o, TRUE) : o \in DocFields}
    \cup {DocOf([Version |-> <<v>>], FALSE) : v \in {2, 3}}

\* config.Auth before UnmarshalYAML assigns the defaults.
ZeroAuth ==
    [Community |-> "", SecurityLevel |-> "", Username |-> "", Password |-> "",
     AuthProtocol |-> "", PrivProtocol |-> "", PrivPassword |-> "",
     ContextName |-> "", Version |-> 0]

\* Two loaded configurations: profiles that passed UnmarshalYAML, and Options.
ProfilePublic == UnmarshalYAML(DocOf([Community |-> <<"private">>], TRUE)).c
ProfileV3 ==
    UnmarshalYAML(DocOf([Version |-> <<3>>, SecurityLevel |-> <<"authPriv">>,
                         Username |-> <<"admin">>, Password |-> <<"authpass">>,
                         AuthProtocol |-> <<"SHA256">>, PrivPassword |-> <<"privpass">>,
                         PrivProtocol |-> <<"AES">>, ContextName |-> <<"ctx">>],
                        TRUE)).c

SampleAuths == [n \in {"public_v2", "secure_v3"} |->
                  IF n = "public_v2" THEN ProfilePublic ELSE ProfileV3]

SampleConfigs ==
    {[Auths |-> SampleAuths, Options |-> DefaultOptions],
     [Auths |-> SampleAuths,
      Options |-> [DefaultOptions EXCEPT !.AllowNonIncreasingOIDs = TRUE,
                                         !.Retries = 1]]}

AuthNames == {"public_v2", "secure_v3", "missing"}

RECURSIVE ItoaChars(_)
\* The decimal digits of a natural number, one character each.
ItoaChars(n) == IF n < 10 THEN <<DigitChars[n + 1]>>
                ELSE ItoaChars(n \div 10) \o <<DigitChars[(n % 10) + 1]>>

RECURSIVE SeqsUpTo(_, _)
\* The sequences over S of length at most n.
SeqsUpTo(S, n) ==
    IF n = 0 THEN {<<>>}
    ELSE SeqsUpTo(S, n - 1) \cup {Append(s, x) : s \in SeqsUpTo(S, n - 1), x \in S}

SegAlphabet == {"1", "6", "a", "-", "+"}

\* Port numbers around the defaults and around the end of the 16-bit range.
PortSamples ==
    {0, DefaultPort, 10161, 2 ^ PortBits - 1, 2 ^ PortBits, 2 ^ PortBits + DefaultPort,
     70000}

PortSegs ==
    SeqsUpTo(SegAlphabet, MaxSegLen) \cup {ItoaChars(n) : n \in PortSamples}
    \cup {<<"-">> \o ItoaChars(n) : n \in PortSamples}
    \cup {<<"a", "b", "c">>}

\* Hosts with no colon and no bracket.
PlainHosts == {<<"h", "o", "s", "t">>, <<"1", "0", ".", "0", ".", "0", ".", "7">>}

\* Hosts that hold a colon or a bracket.
OtherHosts ==
    {<<"[", ":", ":", "1", "]">>, <<":", ":", "1">>, <<"b", ":", "/", "/", "h">>,
     <<"[", "h">>, <<"h", "]">>}

Schemes == {<<>>, <<"t", "c", "p">>, <<"u", "d", "p", "6">>}

\* [scheme "://"] host [":" port]; port <<"none">> stands for no port segment.
MakeTarget(scheme, host, seg) ==
    (IF scheme = <<>> THEN <<>> ELSE scheme \o <<":", "/", "/">>)
    \o host
    \o (IF seg = <<"none">> THEN <<>> ELSE <<":">> \o seg)

Targets ==
    {MakeTarget(s, h, p) : s \in Schemes, h \in PlainHosts \cup OtherHosts,
                           p \in PortSegs \cup {<<"none">>}}

\* Bytes below, at and above the ends of the printable range, and bytes that
\* start, continue or break a UTF-8 encoding.
SampleBytes == {0, 1, 2, 31, 32, 72, 126, 127, 128, 195, 169, 226, 130, 172, 255}

OctetSamples ==
    SeqsUpTo(SampleBytes, MaxOctets)
    \cup {<<72, 101, 108, 108, 111>>, <<240, 159, 152, 128>>, <<72, 105, 240, 159, 152>>}

PduNames == {".1.3.6.1.2.1.1.3.0"}

\* A uint32 below 2^31 as its two halves.
Uint32(n) == <<n \div LimbBase, n % LimbBase>>

\* TimeTicks values: zero, the example, the ends of a second, a minute, an
\* hour and a day, the values around which ticks * 10 passes 2^31 and 2^32,
\* the ends of a hundred days, 2^31 and the largest uint32.
TickSamples ==
    {Uint32(n) : n \in {0, 1, 99, 100, 5999, 6000, 12345, 359999, 360000,
                        8639999, 8640000, 214748364, 214748365, 429496729,
                        429496730, 863999999, 864000000, 2147483647}}
    \cup {<<32768, 0>>, <<65535, 65535>>}

\* The PDUs handed to formatValue: a number is <<n>>, nil is <<>>.
Pdus ==
    [Name : PduNames, Type : {"Integer"}, Value : {<<-7>>, <<0>>, <<42>>}]
    \cup [Name : PduNames, Type : {"IPAddress"}, Value : {"192.0.2.1"}]
    \cup [Name : PduNames, Type : {"ObjectIdentifier"}, Value : {".1.3.6.1.4.1.8072.3.2.10"}]
    \cup [Name : PduNames, Type : {"OctetString"}, Value : OctetSamples]
    \cup [Name : PduNames, Type : {"TimeTicks"}, Value : TickSamples]
    \cup [Name : PduNames, Type : {"Counter32", "Gauge32", "Counter64"},
          Value : {<<0>>, <<4096>>}]
    \cup [Name : PduNames, Type : {"NoSuchObject", "NoSuchInstance", "EndOfMibView", "Null"},
          Value : {<<>>}]

\* What the writer may hold before a call of formatValue.
Writers == {<<>>, <<".1.3.6.1.2.1.1.5.0", " = STRING: ", "sw1", "\n">>}

NoPdu == [Name |-> "", Type |-> "Null", Value |-> <<>>]
NoDoc == DocOf([Version |-> <<>>], TRUE)
NotBuilt == [g |-> <<>>, err |-> "not called"]

----------------------------------------------------------------------------
(* Specification of UnmarshalYAML: one document, decoded and checked *)

InitAuth ==
    /\ step = "input"
    /\ doc \in YamlDocs
    /\ c = ZeroAuth
    /\ yamlErr = NoError
    /\ target = <<>> /\ authName = "" /\ built = NotBuilt
    /\ pdu = NoPdu /\ writer = <<>>
    /\ C = <<>> /\ proc = "start" /\ fatal = NoError /\ inv = <<>>

Unmarshal ==
    /\ step = "input"
    /\ step' = "output"
    /\ c' = UnmarshalYAML(doc).c
    /\ yamlErr' = UnmarshalYAML(doc).err
    /\ UNCHANGED <<doc, target, authName, built, pdu, writer, C, proc, fatal, inv>>

NextAuth == Unmarshal

SpecAuth == InitAuth /\ [][NextAuth]_vars

----------------------------------------------------------------------------
(* Specification of NewGoSNMP: one call under a loaded configuration *)

InitTarget ==
    /\ step = "input"
    /\ target \in Targets
    /\ authName \in AuthNames
    /\ C \in {<<conf>> : conf \in SampleConfigs}
    /\ built = NotBuilt
    /\ doc = NoDoc /\ c = ZeroAuth /\ yamlErr = NoError
    /\ pdu = NoPdu /\ writer = <<>>
    /\ proc = "serving" /\ fatal = NoError /\ inv = <<>>

Build ==
    /\ step = "input"
    /\ step' = "output"
    /\ built' = NewGoSNMP(C[1], authName, target)
    /\ UNCHANGED <<doc, c, yamlErr, target, authName, pdu, writer, C, proc, fatal, inv>>

NextTarget == Build

SpecTarget == InitTarget /\ [][NextTarget]_vars

----------------------------------------------------------------------------
(* Specification of formatValue: one PDU written to a writer *)

InitFormat ==
    /\ step = "input"
    /\ pdu \in Pdus
    /\ writer \in Writers
    /\ doc = NoDoc /\ c = ZeroAuth /\ yamlErr = NoError
    /\ target = <<>> /\ authName = "" /\ built = NotBuilt
    /\ C = <<>> /\ proc = "start" /\ fatal = NoError /\ inv = <<>>

Format ==
    /\ step = "input"
    /\ step' = "output"
    /\ writer' = formatValue(writer, pdu)
    /\ UNCHANGED <<doc, c, yamlErr, target, authName, built, pdu, C, proc, fatal, inv>>

NextFormat == Format

SpecFormat == InitFormat /\ [][NextFormat]_vars

----------------------------------------------------------------------------
(* config: LoadFile, and main *)

\* os.Expand(value, os.Getenv) under the environment of the process: SNMP_USER
\* and SNMP_PASS are set, UNSET is not; a value with no reference is kept.
Expand(v) ==
    CASE v = "${SNMP_USER}" -> "admin"
      [] v = "${SNMP_PASS}" -> "authpass"
      [] v = "${UNSET}" -> ""
      [] OTHER -> v

\* substituteEnvVariables(value)
substituteEnvVariables(v) ==
    IF Expand(v) = "" THEN [val |-> "", err |-> "environment variable not found"]
    ELSE [val |-> Expand(v), err |-> NoError]

\* The fields LoadFile expands, each only when it is not empty.
ExpandedFields == {"Username", "Password", "PrivPassword"}

ExpandError(a) ==
    \E f \in ExpandedFields : a[f] # "" /\ substituteEnvVariables(a[f]).err # NoError

ExpandAuth(a) ==
    [f \in AuthFields |->
       IF f \in ExpandedFields /\ a[f] # "" THEN substituteEnvVariables(a[f]).val
       ELSE a[f]]

\* A variant that keeps the profiles whatever UnmarshalYAML said of them.
LoadFileUnchecked(f, expandEnvVars) ==
    IF ~f.readable THEN [cfg |-> <<>>, err |-> "open: no such file or directory"]
    ELSE [cfg |-> << [Auths |-> [n \in DOMAIN f.auths |-> UnmarshalYAML(f.auths[n]).c],
                      Options |-> f.options] >>,
          err |-> NoError]

\* config.LoadFile(path, expandEnvVars) of the file f: the configuration
\* (<<>> for nil) and the error.  yaml.UnmarshalStrict calls UnmarshalYAML on
\* every profile of the document and fails when one of them fails.
LoadFile(f, expandEnvVars) ==
    LET auths == [n \in DOMAIN f.auths |-> UnmarshalYAML(f.auths[n]).c]
    IN IF ~f.readable THEN [cfg |-> <<>>, err |-> "open: no such file or directory"]
       ELSE IF \E n \in DOMAIN f.auths : UnmarshalYAML(f.auths[n]).err # NoError
       THEN [cfg |-> <<>>,
             err |-> UnmarshalYAML(f.auths[CHOOSE n \in DOMAIN f.auths :
                                     UnmarshalYAML(f.auths[n]).err # NoError]).err]
       ELSE IF expandEnvVars /\ \E n \in DOMAIN auths : ExpandError(auths[n])
       THEN [cfg |-> <<>>, err |-> "environment variable not found"]
       ELSE [cfg |-> << [Auths |-> IF expandEnvVars
                                   THEN [n \in DOMAIN auths |-> ExpandAuth(auths[n])]
                                   ELSE auths,
                         Options |-> f.options] >>,
             err |-> NoError]

----------------------------------------------------------------------------
(* tools: the handlers SnmpGet and SnmpWalk *)

\* At most NumInvocations tool calls are in flight.
NumInvocations == 2
\* The engine delivers at most MaxLeaves PDUs to one request.
MaxLeaves == 2

Invocations == 1..NumInvocations

\* The errors the handlers return; nil is NoError.
ErrConnect == "connect() err"
ErrGet == "snmpget() err"
ErrWalk == "walk() err"

\* The address of an object that is not allocated; 0 is nil.
NilAddr == 0

\* A variant that hands out one and the same session object to every caller.
AllocShared(used) == 1

\* g := &gosnmp.GoSNMP{...}: a new object, at an address no object in use has.
Alloc(used) == IF used = {} THEN 1 ELSE Max(used) + 1

\* A tool invocation that has not been called yet; g is the session and addr
\* the address of the session object the handler holds.
IdleInvocation ==
    [pc |-> "idle", kind |-> "", auth |-> "", target |-> <<>>, g |-> <<>>, addr |-> NilAddr,
     conn |-> "nil", connected |-> "none", requests |-> 0, requested |-> "none",
     delivered |-> <<>>, sb |-> <<>>, text |-> <<>>, err |-> NoError]

RECURSIVE FormatAllNewestFirst(_, _)
\* A variant of FormatAll that puts each line before the lines written so far.
FormatAllNewestFirst(w, ps) ==
    IF ps = <<>> THEN w ELSE FormatAllNewestFirst(formatValue(<<>>, Head(ps)) \o w, Tail(ps))

RECURSIVE FormatAll(_, _)
\* The loop "for _, pdu := range res.Variables { formatValue(&sb, pdu) }", and
\* the walk function called once for each PDU of the walk, in order.
FormatAll(w, ps) ==
    IF ps = <<>> THEN w ELSE FormatAll(formatValue(w, Head(ps)), Tail(ps))

\* "defer g.Conn.Close()" as the handler returns: the connection is closed.
DeferredClose(conn) == "closed"

\* return nil, fmt.Errorf(...): no result, and the error.
ReturnError(r, e) == [r EXCEPT !.pc = "returned", !.text = <<>>, !.err = e]

\* return &mcp.CallToolResultFor[any]{... Text: sb.String() ...}, nil
ReturnText(r, sb) == [r EXCEPT !.pc = "returned", !.sb = sb, !.text = <<sb>>, !.err = NoError]

\* The handler's answer to an error of NewGoSNMP: the request fails with it.
ReturnInvalidTarget(r, e) == ReturnError(r, e)

\* g.Connect() failed: the handler returns before it defers the Close.  The
\* engine reports whether it left a connection open behind the error.
ConnectFailed(r, leftOpen) ==
    ReturnError([r EXCEPT !.connected = "fail",
                          !.conn = IF leftOpen THEN "open" ELSE "nil"], ErrConnect)

\* g.Connect() succeeded and the Close is deferred.
ConnectOk(r) == [r EXCEPT !.pc = "connected", !.connected = "ok", !.conn = "open"]

\* A variant of RequestDone that logs the engine's error and answers with the
\* text written so far.
RequestDoneLogged(r, ps, ok, e) ==
    ReturnText([r EXCEPT !.requests = @ + 1,
                         !.requested = IF ok THEN "ok" ELSE "fail",
                         !.delivered = ps,
                         !.conn = DeferredClose(@)],
               FormatAll(<<>>, ps))

\* The request of a handler returned from the engine: ps are the PDUs it
\* delivered, ok whether it ended without an error.
RequestDone(r, ps, ok, e) ==
    LET q == [r EXCEPT !.requests = @ + 1,
                       !.requested = IF ok THEN "ok" ELSE "fail",
                       !.delivered = ps,
                       !.conn = DeferredClose(@)]
    IN IF ok THEN ReturnText(q, FormatAll(<<>>, ps))
       ELSE ReturnError([q EXCEPT !.sb = IF r.kind = "walk" THEN FormatAll(<<>>, ps)
                                                             ELSE <<>>], e)

\* The configuration files main may be started with.
ConfigFiles ==
    {[readable |-> TRUE, expand |-> FALSE, options |-> DefaultOptions,
      auths |-> [n \in {"public_v2", "secure_v3"} |->
                   IF n = "public_v2" THEN DocOf([Community |-> <<"private">>], TRUE)
                   ELSE DocOf([Version |-> <<3>>, SecurityLevel |-> <<"authPriv">>,
                               Username |-> <<"admin">>, Password |-> <<"authpass">>,
                               AuthProtocol |-> <<"SHA256">>,
                               PrivPassword |-> <<"privpass">>,
                               PrivProtocol |-> <<"AES">>], TRUE)]],
     [readable |-> TRUE, expand |-> TRUE,
      options |-> [DefaultOptions EXCEPT !.AllowNonIncreasingOIDs = TRUE,
                                         !.MaxRepetitions = 10, !.Retries = 1,
                                         !.Timeout = 2],
      auths |-> [n \in {"public_v2"} |->
                   DocOf([Version |-> <<3>>, Username |-> <<"${SNMP_USER}">>], TRUE)]],
     [readable |-> TRUE, expand |-> TRUE, options |-> DefaultOptions,
      auths |-> [n \in {"public_v2"} |->
                   DocOf([Version |-> <<3>>, Username |-> <<"${UNSET}">>], TRUE)]],
     [readable |-> TRUE, expand |-> FALSE, options |-> DefaultOptions,
      auths |-> [n \in {"public_v2", "secure_v3"} |->
                   IF n = "public_v2" THEN DocOf([Version |-> <<2>>], TRUE)
                   ELSE DocOf([Version |-> <<3>>, SecurityLevel |-> <<"authPriv">>,
                               Username |-> <<"admin">>, Password |-> <<"authpass">>],
                              TRUE)]],
     [readable |-> FALSE, expand |-> FALSE, options |-> DefaultOptions,
      auths |-> [n \in {"public_v2"} |-> DocOf([Version |-> <<2>>], TRUE)]]}

\* What the tool calls ask for.
CallKinds == {"get", "walk"}
CallAuths == {"public_v2", "missing"}
CallTargets ==
    {<<"t", "c", "p", ":", "/", "/", "h", "o", "s", "t", ":", "1", "0", "1", "6", "1">>,
     <<"h", "o", "s", "t", ":", "a", "b", "c">>}

\* The leaves the agent holds, in the order of their OIDs.
AgentTree ==
    <<[Name |-> ".1.3.6.1.2.1.1.3.0", Type |-> "TimeTicks", Value |-> <<0, 12345>>],
      [Name |-> ".1.3.6.1.2.1.1.5.0", Type |-> "OctetString", Value |-> <<115, 119, 49>>],
      [Name |-> ".1.3.6.1.2.1.2.1.0", Type |-> "Integer", Value |-> <<42>>]>>

\* What the engine may deliver to one request: the leaves under the root (or
\* at the OIDs) asked for, in order, MaxLeaves at most; none when the subtree
\* is empty.
Deliveries ==
    {SubSeq(AgentTree, a, b) : a \in 1..Len(AgentTree), b \in 0..Len(AgentTree)}
    \cap SeqsUpTo({AgentTree[k] : k \in 1..Len(AgentTree)}, MaxLeaves)

Init ==
    /\ proc = "start"
    /\ fatal = NoError
    /\ C = <<>>
    /\ inv = [i \in Invocations |-> IdleInvocation]
    /\ step = "input"
    /\ doc = NoDoc /\ c = ZeroAuth /\ yamlErr = NoError
    /\ target = <<>> /\ authName = "" /\ built = NotBuilt
    /\ pdu = NoPdu /\ writer = <<>>

serverOnly == <<step, doc, c, yamlErr, target, authName, built, pdu, writer>>

\* main: the configuration is loaded; an error ends the process, and
\* otherwise C is assigned and the tools are served.
Main ==
    /\ proc = "start"
    /\ \E f \in ConfigFiles :
         LET r == LoadFile(f, f.expand)
         IN IF r.err # NoError
            THEN proc' = "exited" /\ fatal' = r.err /\ C' = C
            ELSE proc' = "serving" /\ fatal' = fatal /\ C' = r.cfg
    /\ UNCHANGED <<inv, serverOnly>>

\* A handler is called and builds its session with NewGoSNMP.
Call(i) ==
    /\ proc = "serving"
    /\ inv[i].pc = "idle"
    /\ \A j \in Invocations : j < i => inv[j].pc # "idle"
    /\ \E k \in CallKinds, a \in CallAuths, t \in CallTargets :
         LET b == NewGoSNMP(C[1], a, t)
             used == {inv[j].addr : j \in Invocations} \ {NilAddr}
             r == [inv[i] EXCEPT !.kind = k, !.auth = a, !.target = t, !.g = b.g,
                                 !.addr = IF b.g = <<>> THEN NilAddr ELSE Alloc(used)]
         IN inv' = [inv EXCEPT ![i] =
                      IF b.err # NoError THEN ReturnInvalidTarget(r, b.err)
                      ELSE [r EXCEPT !.pc = "built"]]
    /\ UNCHANGED <<C, proc, fatal, serverOnly>>

\* g.Connect(): the engine opens the connection, or fails, with or without a
\* connection left open.
Connect(i) ==
    /\ inv[i].pc = "built"
    /\ \/ inv' = [inv EXCEPT ![i] = ConnectOk(@)]
       \/ \E leftOpen \in BOOLEAN : inv' = [inv EXCEPT ![i] = ConnectFailed(@, leftOpen)]
    /\ UNCHANGED <<C, proc, fatal, serverOnly>>

\* SnmpGet after Connect: g.Get(oids) and the answer.
Get(i) ==
    /\ inv[i].pc = "connected"
    /\ inv[i].kind = "get"
    /\ \/ \E ps \in Deliveries :
            inv' = [inv EXCEPT ![i] = RequestDone(@, ps, TRUE, NoError)]
       \/ inv' = [inv EXCEPT ![i] = RequestDone(@, <<>>, FALSE, ErrGet)]
    /\ UNCHANGED <<C, proc, fatal, serverOnly>>

\* SnmpWalk after Connect: g.Walk(oid, fn) and the answer.  The walk calls fn
\* for every PDU it reaches and stops at the end of the subtree or at an error.
Walk(i) ==
    /\ inv[i].pc = "connected"
    /\ inv[i].kind = "walk"
    /\ \E ps \in Deliveries, ok \in BOOLEAN :
         inv' = [inv EXCEPT ![i] = RequestDone(@, ps, ok, IF ok THEN NoError ELSE ErrWalk)]
    /\ UNCHANGED <<C, proc, fatal, serverOnly>>

Next ==
    \/ Main
    \/ \E i \in Invocations : Call(i)
    \/ \E i \in Invocations : Connect(i)
    \/ \E i \in Invocations : Get(i)
    \/ \E i \in Invocations : Walk(i)

Spec == Init /\ [][Next]_vars

----------------------------------------------------------------------------
(* Properties of the handlers *)

Returned(i) == inv[i].pc = "returned"

\* C1: for every Get or Walk invocation and every exit path (connect fails,
\* the request fails after connect, or the operation succeeds), the session's
\* connection is released before the handler returns; a failed connect that
\* left a connection open does not return with it still open.
C1_ReleasedOnEveryExit ==
    \A i \in Invocations : Returned(i) => inv[i].conn # "open"

\* C2: Get and Walk never swallow an engine failure.  A failed connect gives
\* the connect error and no text; a request that fails after a successful
\* connect gives the request error of its handler and no text, whatever the
\* walk had written; text is returned only when connect and request both
\* succeeded; and the request is issued at most once in an invocation.
C2_NoSwallowedFailure ==
    \A i \in Invocations :
      LET r == inv[i]
      IN /\ r.requests <= 1
         /\ r.requests = 1 => r.connected = "ok"
         /\ Returned(i) =>
              /\ r.connected = "fail" =>
                   r.err = ErrConnect /\ r.text = <<>> /\ r.requests = 0
              /\ r.connected = "ok" /\ r.requested = "fail" =>
                   /\ r.err = (IF r.kind = "get" THEN ErrGet ELSE ErrWalk)
                   /\ r.text = <<>>
              /\ r.text # <<>> =>
                   r.connected = "ok" /\ r.requested = "ok" /\ r.err = NoError
              /\ r.connected # "none" /\ r.text = <<>> => r.err # NoError

\* A walk failed after its function had written a line, and returned no text.
C2_Witness ==
    \E i \in Invocations :
      /\ Returned(i) /\ inv[i].kind = "walk"
      /\ inv[i].requested = "fail" /\ inv[i].sb # <<>>
      /\ inv[i].text = <<>> /\ inv[i].err = ErrWalk

\* The fields of a session that ConfigureSNMP writes.
ProfileFields ==
    {"Version", "Community", "ContextName", "SecurityModel", "MsgFlags",
     "SecurityParameters"}

\* The fields of a session that NewGoSNMP sets from the target and Options.
AddressFields == {"Transport", "Target", "Port", "Retries", "Timeout"}

UnknownAuth(i) == inv[i].pc # "idle" /\ inv[i].auth \notin DOMAIN C[1].Auths

\* C6, as stated: building a session with an auth name that is not a key of
\* the AuthProfile map never fails, it returns a session with no error.
C6_UnknownAuthNeverFails ==
    \A i \in Invocations : UnknownAuth(i) => inv[i].g # <<>>

\* C6, amended: building a session with an auth name that is not a key of the
\* AuthProfile map fails exactly when the same target fails with a known
\* profile (its port segment does not parse), and returns no session then.
\* For every other target it returns a session with transport, host, port,
\* retries and timeout set exactly as for a known profile, and with none of
\* the profile-derived fields written.
C6_UnknownAuthBuildsBareSession ==
    \A i \in Invocations :
      UnknownAuth(i) =>
        LET r == inv[i]
            known == NewGoSNMP(C[1], "public_v2", r.target)
        IN /\ "public_v2" \in DOMAIN C[1].Auths
           /\ known.err # NoError => r.g = <<>> /\ r.connected = "none"
           /\ known.err = NoError =>
                /\ r.g # <<>>
                /\ \A f \in AddressFields : r.g[1][f] = known.g[1][f]
                /\ r.g[1].Retries = C[1].Options.Retries
                /\ r.g[1].Timeout = C[1].Options.Timeout
                /\ \A f \in ProfileFields : r.g[1][f] = ZeroGoSNMP[f]
                /\ \E f \in ProfileFields : known.g[1][f] # ZeroGoSNMP[f]
           /\ r.target = <<"t", "c", "p", ":", "/", "/", "h", "o", "s", "t", ":",
                           "1", "0", "1", "6", "1">> =>
                /\ r.g # <<>>
                /\ r.g[1].Transport = <<"t", "c", "p">>
                /\ r.g[1].Target = <<"h", "o", "s", "t">>
                /\ r.g[1].Port = 10161

\* A request under an unknown auth name went on to connect and was answered
\* with text, over a session with no security parameters.
C6_Witness ==
    \E i \in Invocations :
      /\ UnknownAuth(i) /\ Returned(i)
      /\ inv[i].g # <<>> /\ inv[i].g[1].SecurityParameters = <<>>
      /\ inv[i].connected = "ok" /\ inv[i].text # <<>>

\* The number of lines in the text ps.
NewlineCount(ps) == Cardinality(Positions(ps, "\n"))

\* The line of each leaf of the agent, as snmpwalk prints it.
LeafLine(name) ==
    CASE name = ".1.3.6.1.2.1.1.3.0" ->
           ".1.3.6.1.2.1.1.3.0 = Timeticks: (12345) 00 days, 00:02:03.450\n"
      [] name = ".1.3.6.1.2.1.1.5.0" -> ".1.3.6.1.2.1.1.5.0 = STRING: sw1\n"
      [] name = ".1.3.6.1.2.1.2.1.0" -> ".1.3.6.1.2.1.2.1.0 = INTEGER: 42\n"

\* C8: the text of a successful Get or Walk is the concatenation, in the order
\* of delivery, of exactly one line for each PDU the engine delivered: k
\* leaves give k lines in the order of the traversal, and an empty subtree
\* gives an empty text and no error.
C8_OneLinePerPduInOrder ==
    \A i \in Invocations :
      Returned(i) /\ inv[i].text # <<>> =>
        LET ps == inv[i].delivered
            t == inv[i].text[1]
        IN /\ NewlineCount(t) = Len(ps)
           /\ Join(t) = Join([k \in 1..Len(ps) |-> LeafLine(ps[k].Name)])
           /\ ps = <<>> => t = <<>> /\ inv[i].err = NoError

\* One walk returned two lines for two leaves, and another returned the
\* empty text of an empty subtree.
C8_Witness ==
    \E i, j \in Invocations :
      /\ Returned(i) /\ inv[i].kind = "walk" /\ inv[i].text # <<>>
      /\ Len(inv[i].delivered) = 2 /\ NewlineCount(inv[i].text[1]) = 2
      /\ Returned(j) /\ inv[j].kind = "walk" /\ inv[j].delivered = <<>>
      /\ inv[j].text = << <<>> >> /\ inv[j].err = NoError

----------------------------------------------------------------------------
(* Properties of UnmarshalYAML *)

\* The document was decoded and checked.
Checked == step = "output" /\ doc.wellTyped

\* What each security level of version 3 asks for, tier upon tier.
HasIdentity(a) == a.Username # ""
HasAuth(a) == HasIdentity(a) /\ a.Password # "" /\ a.AuthProtocol \in AuthProtocolNames
HasPriv(a) == HasAuth(a) /\ a.PrivPassword # "" /\ a.PrivProtocol \in PrivProtocolNames

\* C3: for version 3, after the defaults are applied to the fields the
\* document leaves out, validation accepts exactly the cumulative cases:
\* noAuthNoPriv iff the username is not empty; authNoPriv iff moreover the
\* password is not empty and the auth protocol is one of the six names;
\* authPriv iff moreover the priv password is not empty and the priv protocol
\* is one of the six names; any other security level is rejected.
C3_V3AcceptsExactlyCumulative ==
    Checked /\ c.Version = 3 =>
      /\ (yamlErr = NoError) <=>
           CASE c.SecurityLevel = "noAuthNoPriv" -> HasIdentity(c)
             [] c.SecurityLevel = "authNoPriv" -> HasAuth(c)
             [] c.SecurityLevel = "authPriv" -> HasPriv(c)
             [] OTHER -> FALSE
      /\ "security_level" \notin DOMAIN doc.keys =>
           c.SecurityLevel = "noAuthNoPriv" /\ (yamlErr = NoError <=> HasIdentity(c))
      /\ "auth_protocol" \notin DOMAIN doc.keys => c.AuthProtocol = "MD5"
      /\ "priv_protocol" \notin DOMAIN doc.keys => c.PrivProtocol = "DES"

\* An authPriv profile that names its user, both passwords and a priv
\* protocol, and leaves the auth protocol to the default, was accepted.
C3_Witness ==
    /\ Checked /\ c.Version = 3 /\ c.SecurityLevel = "authPriv"
    /\ "auth_protocol" \notin DOMAIN doc.keys
    /\ "priv_protocol" \in DOMAIN doc.keys
    /\ HasPriv(c) /\ yamlErr = NoError

\* C9: validation is gated by the version before any other check: a version
\* other than 1, 2 and 3 is rejected with the version error whatever the
\* other fields hold, and a version of 1 or 2 is accepted whatever the
\* security level, the credentials and the protocol names hold.
C9_VersionGate ==
    Checked =>
      /\ c.Version \notin {1, 2, 3} => yamlErr = ErrVersion
      /\ c.Version \in {1, 2} => yamlErr = NoError
      /\ "version" \notin DOMAIN doc.keys => c.Version = 2

\* A version 1 profile with an unknown security level, an unknown auth
\* protocol and no user was accepted.
C9_Witness ==
    /\ Checked /\ c.Version = 1 /\ yamlErr = NoError
    /\ c.SecurityLevel = "AuthPriv" /\ c.AuthProtocol = "sha" /\ c.Username = ""

----------------------------------------------------------------------------
(* Properties of NewGoSNMP *)

UDP == <<"u", "d", "p">>
HOST == <<"h", "o", "s", "t">>

\* A port segment that is a decimal numeral: an optional sign, then digits.
IsNumeral(seg) ==
    LET ds == IF seg # <<>> /\ seg[1] \in {"-", "+"} THEN Tail(seg) ELSE seg
    IN ds # <<>> /\ \A k \in 1..Len(ds) : IsDigit(ds[k])

RECURSIVE NumeralDigits(_)
NumeralDigits(ds) ==
    IF ds = <<>> THEN 0 ELSE 10 * NumeralDigits(SubSeq(ds, 1, Len(ds) - 1)) + DigitValue(ds[Len(ds)])

\* The integer a numeral writes.
NumeralValue(seg) ==
    IF seg[1] = "-" THEN 0 - NumeralDigits(Tail(seg))
    ELSE IF seg[1] = "+" THEN NumeralDigits(Tail(seg))
    ELSE NumeralDigits(seg)

\* A numeral of an integer that an unsigned 16-bit port can hold.
IsPort16(seg) == IsNumeral(seg) /\ NumeralValue(seg) >= 0 /\ NumeralValue(seg) <= 65535

Session == built.g[1]
BuiltAs(transport, host, port) ==
    /\ built.err = NoError /\ built.g # <<>>
    /\ Session.Transport = transport /\ Session.Target = host /\ Session.Port = port

\* C4: the resolver maps a target to (transport, host, port): no scheme gives
\* "udp" and a "scheme://" prefix, split once at the first "://", gives the
\* scheme; no port gives 161; "host" is (udp, host, 161), "host:10161" is
\* (udp, host, 10161), "tcp://host:10161" is (tcp, host, 10161), and
\* "host:abc" fails and builds no session.
C4_ResolvesTarget ==
    step = "output" =>
      /\ target = HOST => BuiltAs(UDP, HOST, 161)
      /\ target = HOST \o <<":", "1", "0", "1", "6", "1">> => BuiltAs(UDP, HOST, 10161)
      /\ target = <<"t", "c", "p", ":", "/", "/">> \o HOST \o <<":", "1", "0", "1", "6", "1">>
           => BuiltAs(<<"t", "c", "p">>, HOST, 10161)
      /\ target = HOST \o <<":", "a", "b", "c">> => built.err = ErrPort /\ built.g = <<>>
      /\ \A h \in PlainHosts :
           /\ target = h => BuiltAs(UDP, h, DefaultPort)
           /\ \A sch \in Schemes \ {<<>>} :
                /\ target = MakeTarget(sch, h, <<"none">>) => BuiltAs(sch, h, 161)
                /\ \A seg \in PortSegs :
                     target = MakeTarget(sch, h, seg) /\ built.err = NoError =>
                       Session.Transport = sch /\ Session.Target = h
           /\ \A seg \in PortSegs :
                target = MakeTarget(<<>>, h, seg) /\ built.err = NoError =>
                  Session.Transport = UDP /\ Session.Target = h
      /\ \A sch \in Schemes \ {<<>>}, seg \in PortSegs :
           target = MakeTarget(sch, <<"b", ":", "/", "/", "h">>, seg) =>
             BuiltAs(sch, <<"b", ":", "/", "/", "h", ":">> \o seg, DefaultPort)

\* "tcp://host:10161" was resolved to a session.
C4_Witness ==
    /\ step = "output" /\ built.err = NoError
    /\ target = <<"t", "c", "p", ":", "/", "/">> \o HOST \o <<":", "1", "0", "1", "6", "1">>

\* C5: the port segment is parsed as an unsigned 16-bit integer: a target
\* host:port whose port segment is not an integer in 0..65535 (not a number,
\* negative, or above 65535) is rejected, and the port of a session that is
\* built is the number written in the target, never that number modulo 2^16.
C5_PortIsUnsigned16 ==
    step = "output" =>
      \A sch \in Schemes, h \in PlainHosts, seg \in PortSegs :
        target = MakeTarget(sch, h, seg) =>
          IF IsPort16(seg)
          THEN built.err = NoError /\ Session.Port = NumeralValue(seg)
          ELSE built.err = ErrPort /\ built.g = <<>>

----------------------------------------------------------------------------
(* Properties of formatValue *)

\* The value of a PDU as the line shows it after the name of its type.
RawValue(v) == IF v = <<>> THEN "%!d(<nil>)" ELSE Itoa(v[1])

\* The line of a PDU, by the type of the PDU; octet strings and time ticks
\* have lines of their own, of which only the single newline is stated here.
TypedLine(p) ==
    CASE p.Type = "Integer" -> p.Name \o " = INTEGER: " \o Itoa(p.Value[1]) \o "\n"
      [] p.Type = "IPAddress" -> p.Name \o " = IpAddress: " \o p.Value \o "\n"
      [] p.Type = "ObjectIdentifier" -> p.Name \o " = OID: " \o p.Value \o "\n"
      [] p.Type = "NoSuchObject" ->
           p.Name \o " = No Such Object available on this agent at this OID\n"
      [] p.Type = "NoSuchInstance" ->
           p.Name \o " = No Such Instance currently exists at this OID\n"
      [] OTHER -> p.Name \o " = " \o p.Type \o ": " \o RawValue(p.Value) \o "\n"

\* C7: for every PDU, whatever its type and value, formatValue appends
\* exactly one line that ends in a newline, and the type selects the shape of
\* the line: INTEGER, IpAddress, OID, the two "No Such" sentences, and for
\* every type not otherwise listed the name of the type and the raw value.
C7_OneLineByType ==
    [][step = "input" =>
         /\ NewlineCount(writer') = NewlineCount(writer) + 1
         /\ writer'[Len(writer')] = "\n"
         /\ SubSeq(writer', 1, Len(writer)) = writer
         /\ pdu.Type \notin {"OctetString", "TimeTicks"} =>
              Join(writer') = Join(writer) \o TypedLine(pdu)]_vars

\* Every byte is a printable ASCII character.
AllPrintable(bs) == \A k \in 1..Len(bs) : bs[k] >= 32 /\ bs[k] <= 126

\* C10: an OctetString is written as STRING and its text iff every byte of
\* the value is in 32..126, and as Hex-STRING and its bytes in uppercase
\* two-digit hex with spaces between otherwise; a byte outside the range at
\* any place forces hex, bytes of 128 and more and multi-byte sequences
\* included, and no bytes at all are a STRING.
C10_OctetStringByBytes ==
    [][step = "input" /\ pdu.Type = "OctetString" =>
         LET bs == pdu.Value
             out == Join(writer')
             pre == Join(writer) \o pdu.Name
         IN /\ AllPrintable(bs) => out = pre \o " = STRING: " \o BytesString(bs) \o "\n"
            /\ ~AllPrintable(bs) => out = pre \o " = Hex-STRING: " \o HexBytes(bs) \o "\n"
            /\ bs = <<72, 101, 108, 108, 111>> => out = pre \o " = STRING: Hello\n"
            /\ bs = <<0, 1, 2>> => out = pre \o " = Hex-STRING: 00 01 02\n"
            /\ bs = <<72, 127>> => out = pre \o " = Hex-STRING: 48 7F\n"
            /\ bs = <<195, 169>> => out = pre \o " = Hex-STRING: C3 A9\n"
            /\ bs = <<>> => out = pre \o " = STRING: \n"]_vars

\* An octet string whose last bytes are a valid two-byte UTF-8 sequence, after
\* a printable byte, was written in hex.
C10_Witness ==
    /\ step = "output" /\ pdu.Type = "OctetString"
    /\ pdu.Value = <<72, 195, 169>>
    /\ writer[Len(writer) - 2] = " = Hex-STRING: "

----------------------------------------------------------------------------
(* Properties of the TimeTicks case *)

\* The ticks t = hi * 2^16 + lo of a uint32 <<hi, lo>> as whole seconds and
\* hundredths of a second, reckoned from 2^16 = 655 * 100 + 36; t * 10 ms is
\* then 1000 * seconds + 10 * hundredths.
WholeSeconds(v) == v[1] * 655 + (v[1] * 36 + v[2]) \div 100
Hundredths(v) == (v[1] * 36 + v[2]) % 100

\* One decimal digit, and a number in exactly w decimal digits.
Digit(n) == DigitChars[(n % 10) + 1]
RECURSIVE Fixed(_, _)
Fixed(n, w) == IF w = 0 THEN "" ELSE Fixed(n \div 10, w - 1) \o Digit(n)

\* A number in decimal with no padding.
RECURSIVE Decimal(_)
Decimal(n) == IF n < 10 THEN Digit(n) ELSE Decimal(n \div 10) \o Digit(n)

\* The raw value t in decimal.
RawTicks(v) ==
    IF WholeSeconds(v) = 0 THEN Decimal(Hundredths(v))
    ELSE Decimal(WholeSeconds(v)) \o Fixed(Hundredths(v), 2)

\* days = ms div 86400000, and the field of the days: two digits, and three
\* from a hundred days on.
Days(v) == WholeSeconds(v) \div 86400
DayField(v) == IF Days(v) < 100 THEN Fixed(Days(v), 2) ELSE Decimal(Days(v))

\* The line of a TimeTicks value after the name, with a given field of days.
TicksLine(v, dayField) ==
    " = Timeticks: (" \o RawTicks(v) \o ") " \o dayField \o " days, "
    \o Fixed((WholeSeconds(v) \div 3600) % 24, 2) \o ":"
    \o Fixed((WholeSeconds(v) \div 60) % 60, 2) \o ":"
    \o Fixed(WholeSeconds(v) % 60, 2) \o "."
    \o Fixed(Hundredths(v) * 10, 3) \o "\n"

\* One uint32 is less than another.
Below(v, u) == v[1] < u[1] \/ (v[1] = u[1] /\ v[2] < u[2])

\* C11 as stated: for every 32-bit TimeTicks value t the line shows t and
\* the days, hours, minutes, seconds and milliseconds of t * 10 ms, each of
\* the first four in exactly two digits and the milliseconds in exactly three.
C11_TimeTicksFixedWidth ==
    [][step = "input" /\ pdu.Type = "TimeTicks" =>
         /\ Join(writer') = Join(writer) \o pdu.Name \o TicksLine(pdu.Value, DayField(pdu.Value))
         /\ Len(DayField(pdu.Value)) = 2]_vars

\* C11, amended: for every 32-bit TimeTicks value t the line shows t and the
\* days, hours, minutes, seconds and milliseconds of t * 10 ms, computed with
\* no overflow; hours, minutes and seconds have exactly two digits and the
\* milliseconds exactly three, and the days are padded to two digits at
\* least: two below 864000000 ticks, three from there on (497 days at most).
C11_TimeTicksDecomposed ==
    [][step = "input" /\ pdu.Type = "TimeTicks" =>
         LET v == pdu.Value
             out == Join(writer')
             pre == Join(writer) \o pdu.Name
         IN /\ out = pre \o TicksLine(v, DayField(v))
            /\ Days(v) <= 497
            /\ Len(DayField(v)) = (IF Below(v, Uint32(864000000)) THEN 2 ELSE 3)
            /\ v = Uint32(12345) =>
                 out = pre \o " = Timeticks: (12345) 00 days, 00:02:03.450\n"
            /\ v = Uint32(863999999) =>
                 out = pre \o " = Timeticks: (863999999) 99 days, 23:59:59.990\n"
            /\ v = <<65535, 65535>> =>
                 out = pre \o " = Timeticks: (4294967295) 497 days, 02:27:52.950\n"]_vars

\* The largest 32-bit value was written, with its three digits of days.
C11_Witness ==
    /\ step = "output" /\ pdu.Type = "TimeTicks"
    /\ pdu.Value = <<65535, 65535>>
    /\ writer[Len(writer) - 9] = "497"

----------------------------------------------------------------------------
(* Properties of startup *)

\* The errors with which a profile fails its validation.
ConfigErrors ==
    {ErrDecode, ErrVersion, ErrPrivPassword, ErrPrivProtocol, ErrPassword,
     ErrAuthProtocol, ErrUsername, ErrSecurityLevel}

\* Every profile of the file f passes UnmarshalYAML.
AllProfilesValid(f) == \A n \in DOMAIN f.auths : UnmarshalYAML(f.auths[n]).err = NoError

\* The configuration that is served was loaded from a file of which every
\* profile passed, and every profile it stores is valid as it is stored.
ServesValidated(conf) ==
    /\ conf # <<>>
    /\ \A n \in DOMAIN conf[1].Auths : Validate(conf[1].Auths[n]) = NoError
    /\ \E f \in ConfigFiles :
         /\ f.readable /\ AllProfilesValid(f)
         /\ DOMAIN conf[1].Auths = DOMAIN f.auths
         /\ conf = LoadFile(f, f.expand).cfg

Handled(i) == inv[i].pc # "idle"

\* C12: a profile that fails validation makes LoadFile fail, whatever place
\* it has in the file, and main then ends the process: no handler is ever
\* called after it, and the process never serves.  A handler is called only
\* while the process serves, and then the configuration is one whose every
\* profile was validated, stored in C before the first call.
C12_ConfigErrorIsFatal ==
    [][/\ \A f \in ConfigFiles :
            f.readable /\ ~AllProfilesValid(f) =>
              /\ LoadFile(f, f.expand).err \in ConfigErrors
              /\ LoadFile(f, f.expand).cfg = <<>>
       /\ fatal' # NoError <=> proc' = "exited"
       /\ proc = "exited" => proc' = "exited"
       /\ proc' = "exited" => C' = <<>> /\ \A i \in Invocations : ~Handled(i)'
       /\ proc' = "serving" => ServesValidated(C')
       /\ \A i \in Invocations : Handled(i)' => proc = "serving" /\ ServesValidated(C)
      ]_vars

\* main ended the process on a profile that lacks its privacy password, and
\* no handler was called.
C12_Witness ==
    /\ proc = "exited"
    /\ fatal = ErrPrivPassword
    /\ \A i \in Invocations : ~Handled(i)

----------------------------------------------------------------------------
(* Properties of the session's options *)

\* The session of invocation i carries the options of the configuration,
\* all but the repetitions of a bulk request.
CarriesOptions(i) ==
    LET g == inv[i].g[1]
        o == C[1].Options
    IN /\ g.Retries = o.Retries
       /\ g.Timeout = o.Timeout
       /\ g.ExponentialTimeout
       /\ g.MaxOids = MaxOids
       /\ g.AppOpts # <<>> <=> o.AllowNonIncreasingOIDs
       /\ g.AppOpts # <<>> => g.AppOpts[1].c

\* C13: every session that was built has the retries, the timeout and the
\* repetitions of Options, the exponential timeout, the engine's ceiling of
\* OIDs, and the flag for non-increasing OIDs iff Options sets it.
C13_SessionCarriesOptions ==
    \A i \in Invocations :
        inv[i].g # <<>> =>
          /\ CarriesOptions(i)
          /\ inv[i].g[1].MaxRepetitions = C[1].Options.MaxRepetitions

----------------------------------------------------------------------------
(* Properties of concurrent invocations *)

\* Invocation i holds a session object.
HoldsSession(i) == inv[i].addr # NilAddr

\* C14: however Get and Walk invocations interleave, every handler that
\* built a session holds an object of its own, which with its connection no
\* other invocation holds; a step of one invocation changes nothing of
\* another; and from the load of the configuration on, C, with the profiles
\* and the options it stores, keeps the value main assigned.
C14_OwnSessionConfigUnchanged ==
    [][/\ \A i, j \in Invocations :
            i # j /\ HoldsSession(i)' /\ HoldsSession(j)' => inv'[i].addr # inv'[j].addr
       /\ \A i \in Invocations : (inv'[i].g # <<>>) <=> HoldsSession(i)'
       /\ \A i, j \in Invocations : i # j /\ inv'[i] # inv[i] => inv'[j] = inv[j]
       /\ \A i \in Invocations : inv'[i] # inv[i] => proc = "serving" /\ C' = C
       /\ proc = "serving" => proc' = "serving" /\ C' = C
       /\ proc' = "serving" => \E f \in ConfigFiles : C' = LoadFile(f, f.expand).cfg
      ]_vars

\* A Get and a Walk with the same profile and target are connected at the
\* same time, each on a session object of its own with the same settings.
C14_Witness ==
    \E i, j \in Invocations :
        /\ i # j
        /\ inv[i].pc = "connected" /\ inv[j].pc = "connected"
        /\ inv[i].kind = "get" /\ inv[j].kind = "walk"
        /\ inv[i].auth = inv[j].auth /\ inv[i].target = inv[j].target
        /\ inv[i].g = inv[j].g
        /\ inv[i].addr # inv[j].addr

====
